---- MODULE Spec2Model ----
(***************************************************************************)
(* Email-PDF-Retriever: the two IMAP fetchers                              *)
(*   Fetcher A  src/email_pdf_retriever.py   (imaplib, flat output dir)    *)
(*   Fetcher B  src/zimbra_pdf_retriever.py  (imap_tools, monthly folders) *)
(* Text is a sequence of one-character strings; None and '' (both falsy    *)
(* in Python) are the empty sequence.                                      *)
(***************************************************************************)
EXTENDS Integers, Sequences, FiniteSets, TLC

VARIABLES
    fetcher,          \* "A", "B": which script runs
    pc,               \* position in download_pdf_attachments
    days_limit,       \* parameter days_limit (NoLimit = None)
    only_unread,      \* parameter only_unread / search_criteria "UNSEEN"
    search_term,      \* parameter search_term / custom SUBJECT search
    now,              \* datetime.now() at the start of the run
    clock,            \* seconds elapsed since the start of the run
    marksSeen,        \* whether fetching a message sets \Seen on the server
    mailbox,          \* the folder on the server: sequence of messages
    selected,         \* A: the session is in SELECTED state
    message_ids,      \* the search result being iterated (indexes into mailbox)
    total_messages,   \* the count printed as "Found N messages"
    i,                \* messages taken from the search result so far
    fetched,          \* message ids for which a fetch was issued, in order
    subject,          \* cleaned subject of the message being processed
    monthly_folder,   \* B: folder of the message being processed
    partsLeft,        \* parts of the current message still to be walked
    attsLeft,         \* attachments the messages not yet walked may still carry
    carried,          \* number of PDF attachments the walked messages carried
    searches,         \* SEARCH commands the server has answered
    disk0,            \* the files the output directory held before the run
    disk,             \* set of file paths that exist
    folders,          \* B: monthly folders that exist
    writes,           \* every open(path, "wb") of the run, in order
    downloaded_files, \* the list the function builds
    printed,          \* the counts printed by "Downloaded N PDF attachments"
    result,           \* the returned list, once pc = "done"
    logged_in,        \* login succeeded
    logged_out,       \* logout was called
    failed,           \* some call after login failed (non-OK status or exception)
    cf_in,            \* clean_filename: argument
    cf_out            \* clean_filename: return value

vars == <<fetcher, pc, days_limit, only_unread, search_term, now, clock, marksSeen,
          mailbox, selected, message_ids, total_messages, i, fetched, subject,
          monthly_folder, partsLeft, attsLeft, carried, searches, disk0, disk,
          folders, writes, downloaded_files, printed, result, logged_in, logged_out, failed,
          cf_in, cf_out>>

(***************************************************************************)
(* Bounds of the model                                                     *)
(***************************************************************************)
MaxLen == 2
MaxMsgs == 2
MaxAtts == 3
MaxClock == 1

(***************************************************************************)
(* Text helpers                                                            *)
(***************************************************************************)
NoName == << >>

Reserved == {"\\", "/", "*", "?", ":", "\"", "<", ">", "|"}

Alphabet == Reserved \cup {"a", "_", "."}

SeqsUpTo(S, n) == UNION {[1..k -> S] : k \in 0..n}

DEFAULT_NAME ==
    <<"u","n","n","a","m","e","d","_","a","t","t","a","c","h","m","e","n","t",
      ".","p","d","f">>

SubReservedDropPipe(s) ==
    [k \in 1..Len(s) |-> IF s[k] \in Reserved \ {"|"} THEN "_" ELSE s[k]]

\* re.sub(r'[\\/*?:"<>|]', "_", filename)
SubReserved(s) ==
    [k \in 1..Len(s) |-> IF s[k] \in Reserved THEN "_" ELSE s[k]]

\* Fetcher A; a str argument skips the bytes branch
A_clean_filename(filename) ==
    IF filename # NoName THEN SubReserved(filename) ELSE DEFAULT_NAME

\* Fetcher B
B_clean_filename(filename) ==
    IF filename # NoName THEN SubReserved(filename) ELSE DEFAULT_NAME

Digits == <<"0", "1", "2", "3", "4", "5", "6", "7", "8", "9">>

\* f"{n:02d}" and %m %d %H %S of strftime, for 0 <= n <= 99
TwoDigits(n) == <<Digits[(n \div 10) + 1], Digits[(n % 10) + 1]>>

RECURSIVE IntToStr(_)
\* f"{n}" for n >= 0
IntToStr(n) ==
    IF n < 10 THEN <<Digits[n + 1]>>
    ELSE IntToStr(n \div 10) \o <<Digits[(n % 10) + 1]>>

\* str.lower(), on the letters the inputs use
Lower(s) ==
    [k \in 1..Len(s) |->
        CASE s[k] = "P" -> "p"
          [] s[k] = "D" -> "d"
          [] s[k] = "F" -> "f"
          [] OTHER -> s[k]]

EndsWith(s, suffix) ==
    /\ Len(s) >= Len(suffix)
    /\ SubSeq(s, Len(s) - Len(suffix) + 1, Len(s)) = suffix

\* needle in haystack
Contains(haystack, needle) ==
    \E k \in 0..(Len(haystack) - Len(needle)) :
        SubSeq(haystack, k + 1, k + Len(needle)) = needle

DOT_PDF == <<".", "p", "d", "f">>

\* os.path.join(a, b) for a relative b
Join(a, b) == a \o <<"/">> \o b

\* os.path.splitext: the extension starts at the last dot, unless only dots precede it
splitext(name) ==
    LET dots == {k \in 1..Len(name) : name[k] = "."}
        last == IF dots = {} THEN 0 ELSE CHOOSE k \in dots : \A j \in dots : j <= k
    IN  IF last = 0 \/ (\A j \in 1..(last - 1) : name[j] = ".")
        THEN <<name, << >> >>
        ELSE <<SubSeq(name, 1, last - 1), SubSeq(name, last, Len(name))>>

(***************************************************************************)
(* Inputs: parameters, run time, the mailbox, message parts                *)
(***************************************************************************)
NoLimit == -1

output_dir == <<"o", "u", "t">>

\* Dates of April and May 2025
Apr30 == [year |-> 2025, month |-> 4, day |-> 30, hour |-> 0]
May01 == [year |-> 2025, month |-> 5, day |-> 1, hour |-> 0]
May02 == [year |-> 2025, month |-> 5, day |-> 2, hour |-> 0]
May02noon == [year |-> 2025, month |-> 5, day |-> 2, hour |-> 12]

MessageDates == {Apr30, May01}
RunTimes == {May02, May02noon}
DaysLimits == {NoLimit, 0, 1}

\* Day of the year 2025 of a date in April or May
DayOfYear(d) == IF d.month = 4 THEN 90 + d.day ELSE 120 + d.day

\* Hours since the start of 2025
HourOfYear(d) == DayOfYear(d) * 24 + d.hour

SUBJ == <<"r", ":">>
TERM == <<"r">>
Subjects == {NoName, SUBJ}

\* What the server knows of a message before its body is fetched
Messages == [seen : BOOLEAN, date : MessageDates, subject : Subjects]

PDF == "application/pdf"
PNG == "image/png"
ContentTypes == {PDF, PNG}
Dispositions == {"attachment", "inline"}
A_PDF == <<"a", ".", "p", "d", "f">>
A1_PDF == <<"a", ":", "1", ".", "p", "d", "f">>
I_PNG == <<"i", ".", "p", "n", "g">>
FileNames == {NoName, A_PDF, A1_PDF, I_PNG}

\* The parts of a message besides its multipart container, met as the loop walks them:
\* PDFs and images, as attachments or inline, named or not; only an image is named i.png
Attachments ==
    {a \in [ctype : ContentTypes, disp : Dispositions, filename : FileNames] :
        a.filename = I_PNG => a.ctype = PNG}

\* main(): filter option 1 (all), 2 (unread only), 3 (term)
FilterOptions ==
    { [unread |-> FALSE, term |-> NoName],
      [unread |-> TRUE,  term |-> NoName],
      [unread |-> FALSE, term |-> TERM] }

(***************************************************************************)
(* Search                                                                  *)
(***************************************************************************)
SinceDayOffByOne ==
    IF days_limit # NoLimit /\ days_limit # 0
    THEN {DayOfYear(now) - days_limit - 1}
    ELSE {}

\* if days_limit: ... datetime.now() - timedelta(days=days_limit), to the day
SinceDay ==
    IF days_limit # NoLimit /\ days_limit # 0
    THEN {DayOfYear(now) - days_limit}
    ELSE {}

\* The query both fetchers send: UNSEEN, SUBJECT term, SINCE day, conjoined
Criteria ==
    [unseen |-> only_unread, term |-> search_term, since |-> SinceDay]

\* The server's SEARCH: SINCE compares dates disregarding the time of day
Matches(m, c) ==
    /\ c.unseen => ~m.seen
    /\ c.term # NoName => Contains(m.subject, c.term)
    /\ \A d \in c.since : DayOfYear(m.date) >= d

Search(box, c) ==
    LET Pick[k \in 0..Len(box)] ==
            IF k = 0 THEN << >>
            ELSE IF Matches(box[k], c) THEN Append(Pick[k - 1], k) ELSE Pick[k - 1]
    IN  Pick[Len(box)]

\* A fetch of the messages `ids` sets their \Seen flag
MarkSeen(box, ids) ==
    [k \in 1..Len(box) |->
        IF marksSeen /\ k \in ids THEN [box[k] EXCEPT !.seen = TRUE] ELSE box[k]]

Range(s) == {s[k] : k \in 1..Len(s)}

(***************************************************************************)
(* Initial states                                                          *)
(***************************************************************************)
InitLocals ==
    /\ clock = 0
    /\ selected = FALSE
    /\ message_ids = << >>
    /\ total_messages = 0
    /\ i = 0
    /\ fetched = << >>
    /\ subject = NoName
    /\ monthly_folder = NoName
    /\ partsLeft = 0
    /\ carried = 0
    /\ searches = 0
    /\ disk = disk0
    /\ folders = {SubSeq(f, 1, Len(f) - Len(A_PDF) - 1) : f \in disk0}
    /\ writes = << >>
    /\ downloaded_files = << >>
    /\ printed = << >>
    /\ result = << >>
    /\ logged_in = FALSE
    /\ logged_out = FALSE
    /\ failed = FALSE
    /\ cf_out = NoName

\* A file an earlier run of B left in the folder of May 2025
LeftOver == Join(Join(output_dir, <<"2", "0", "2", "5", "-", "0", "5">>), A_PDF)

\* Without a filter A reads of a message's envelope only the subject (for the file
\* name), B only the date (for the folder): the other field is held fixed
Envelopes(f) ==
    IF f = "A" THEN {m \in Messages : ~m.seen /\ m.date = May01}
    ELSE {m \in Messages : ~m.seen /\ m.subject = SUBJ}

\* Runs over mailboxes of unread messages with every kind of attachment, no filter
Init ==
    /\ fetcher \in {"A", "B"}
    /\ days_limit = NoLimit
    /\ only_unread = FALSE
    /\ search_term = NoName
    /\ now = May02noon
    /\ marksSeen = TRUE
    /\ mailbox \in SeqsUpTo(Envelopes(fetcher), MaxMsgs)
    /\ attsLeft = MaxAtts
    /\ disk0 \in (IF fetcher = "B" THEN {{}, {LeftOver}} ELSE {{}})
    /\ pc = "connect"
    /\ cf_in = NoName
    /\ InitLocals

\* Calls of clean_filename on every text of at most MaxLen characters
InitClean ==
    /\ fetcher \in {"A", "B"}
    /\ pc = "clean"
    /\ cf_in \in SeqsUpTo(Alphabet, MaxLen)
    /\ days_limit = NoLimit
    /\ only_unread = FALSE
    /\ search_term = NoName
    /\ now = May02
    /\ marksSeen = TRUE
    /\ mailbox = << >>
    /\ attsLeft = 0
    /\ disk0 = {}
    /\ InitLocals

\* Runs with every filter over mailboxes of read and unread messages, old and new,
\* that carry at most one attachment in all
InitSearch ==
    /\ fetcher \in {"A", "B"}
    /\ days_limit \in DaysLimits
    /\ \E o \in FilterOptions : only_unread = o.unread /\ search_term = o.term
    /\ now \in RunTimes
    /\ marksSeen \in (IF fetcher = "B" THEN BOOLEAN ELSE {TRUE})
    /\ mailbox \in SeqsUpTo(Messages, MaxMsgs)
    /\ attsLeft = 1
    /\ disk0 = {}
    /\ pc = "connect"
    /\ cf_in = NoName
    /\ InitLocals

(***************************************************************************)
(* Fetcher A: src/email_pdf_retriever.py download_pdf_attachments          *)
(***************************************************************************)
Statuses == {"OK", "NO", "raise"}

NO_SUBJECT == <<"n", "o", "_", "s", "u", "b", "j", "e", "c", "t">>

\* datetime.now().strftime("%Y%m%d_%H%M%S") at second t of the run
Timestamp(t) ==
    IntToStr(now.year) \o TwoDigits(now.month) \o TwoDigits(now.day) \o <<"_">>
        \o TwoDigits(now.hour) \o TwoDigits(0) \o TwoDigits(t)

\* f"{subject}_{timestamp}_{clean_name}" under output_dir
UniquePath(subj, stamp, clean_name) ==
    Join(output_dir, subj \o <<"_">> \o stamp \o <<"_">> \o clean_name)

\* "attachment" in content_disposition and content type application/pdf, with a filename
A_IsWanted(att) ==
    /\ att.disp = "attachment"
    /\ att.ctype = PDF
    /\ att.filename # NoName

A_ConnectFailedGoesOn ==
    /\ pc' = "select"
    /\ UNCHANGED <<result, logged_in>>

\* lines 49-51: except Exception: print, return []
A_ConnectFailed ==
    /\ result' = << >>
    /\ pc' = "done"
    /\ UNCHANGED logged_in

\* lines 46-53: connect and log in
A_Connect ==
    /\ fetcher = "A" /\ pc = "connect"
    /\ \E ok \in BOOLEAN :
        IF ok
        THEN /\ logged_in' = TRUE
             /\ pc' = "select"
             /\ UNCHANGED result
        ELSE A_ConnectFailed
    /\ UNCHANGED <<fetcher, disk0, searches,
                   days_limit, only_unread, search_term, now, clock,
                   marksSeen, mailbox, selected, message_ids, total_messages, i,
                   fetched, subject, monthly_folder, partsLeft, attsLeft, carried,
                   disk, folders, writes, downloaded_files, printed, logged_out,
                   failed, cf_in, cf_out>>

\* line 56: mail.select("INBOX"), outside any try
A_Select ==
    /\ fetcher = "A" /\ pc = "select"
    /\ \E st \in Statuses :
        /\ selected' = (st = "OK")
        /\ failed' = (st # "OK")
        /\ pc' = IF st = "raise" THEN "raised" ELSE "search"
    /\ UNCHANGED <<fetcher, disk0, searches,
                   days_limit, only_unread, search_term, now, clock,
                   marksSeen, mailbox, message_ids, total_messages, i, fetched,
                   subject, monthly_folder, partsLeft, attsLeft, carried, disk,
                   folders, writes, downloaded_files, printed, result, logged_in,
                   logged_out, cf_in, cf_out>>

\* lines 59-77: mail.search, outside any try; SEARCH is illegal unless a folder is selected
A_Search ==
    /\ fetcher = "A" /\ pc = "search"
    /\ \E st \in Statuses :
        /\ ~selected => st = "raise"
        /\ CASE st = "raise" ->
                  /\ pc' = "raised"
                  /\ failed' = TRUE
                  /\ UNCHANGED <<message_ids, total_messages, logged_out, result, searches>>
             [] st = "NO" ->
                  /\ searches' = searches + 1
                  /\ logged_out' = TRUE
                  /\ result' = << >>
                  /\ pc' = "done"
                  /\ failed' = TRUE
                  /\ UNCHANGED <<message_ids, total_messages>>
             [] OTHER ->
                  /\ searches' = searches + 1
                  /\ message_ids' = Search(mailbox, Criteria)
                  /\ total_messages' = Len(message_ids')
                  /\ pc' = "loop"
                  /\ UNCHANGED <<failed, logged_out, result>>
    /\ UNCHANGED <<fetcher, disk0,
                   days_limit, only_unread, search_term, now, clock,
                   marksSeen, mailbox, selected, i, fetched, subject, monthly_folder,
                   partsLeft, attsLeft, carried, disk, folders, writes,
                   downloaded_files, printed, logged_in, cf_in, cf_out>>

A_FetchFailedBreaks ==
    /\ failed' = TRUE
    /\ i' = Len(message_ids)
    /\ UNCHANGED <<mailbox, subject, partsLeft, attsLeft, pc>>

\* lines 86-88 and 125-126: `continue`, or the handler's print: on to the next id
A_FetchFailed ==
    /\ failed' = TRUE
    /\ i' = i + 1
    /\ UNCHANGED <<mailbox, subject, partsLeft, attsLeft, pc>>

\* lines 79-106: take the next id, fetch and parse the message, clean its subject
A_Fetch ==
    /\ fetcher = "A" /\ pc = "loop" /\ i < Len(message_ids)
    /\ fetched' = Append(fetched, message_ids[i + 1])
    /\ \E st \in Statuses, n \in 0..attsLeft :
        IF st = "OK"
        THEN /\ i' = i + 1
             /\ mailbox' = MarkSeen(mailbox, {message_ids[i + 1]})
             /\ subject' = IF mailbox[message_ids[i + 1]].subject # NoName
                           THEN A_clean_filename(mailbox[message_ids[i + 1]].subject)
                           ELSE NO_SUBJECT
             /\ partsLeft' = n
             /\ attsLeft' = attsLeft - n
             /\ pc' = IF n > 0 THEN "part" ELSE "loop"
             /\ UNCHANGED failed
        ELSE /\ n = 0
             /\ A_FetchFailed
    /\ UNCHANGED <<fetcher, disk0, searches,
                   days_limit, only_unread, search_term, now, clock,
                   marksSeen, selected, message_ids, total_messages, monthly_folder,
                   carried, disk, folders, writes, downloaded_files, printed, result,
                   logged_in, logged_out, cf_in, cf_out>>

\* lines 107-126: one part of msg.walk(), written at the second the clock shows then;
\* an exception ends this message only
A_Part ==
    /\ fetcher = "A" /\ pc = "part" /\ partsLeft > 0
    /\ \E att \in Attachments, outcome \in {"ok", "open raises", "write raises"},
          t \in clock..MaxClock :
        LET path == UniquePath(subject, Timestamp(t), A_clean_filename(att.filename)) IN
        /\ carried' = carried + (IF att.ctype = PDF /\ att.disp = "attachment" THEN 1 ELSE 0)
        /\ IF ~A_IsWanted(att)
           THEN /\ outcome = "ok" /\ t = clock
                /\ partsLeft' = partsLeft - 1
                /\ UNCHANGED <<clock, disk, writes, downloaded_files, failed>>
           ELSE /\ clock' = t
                /\ CASE outcome = "ok" ->
                          /\ disk' = disk \cup {path}
                          /\ writes' = Append(writes, [path |-> path, dir |-> output_dir,
                                                    name |-> A_clean_filename(att.filename),
                                                    ctype |-> att.ctype])
                          /\ downloaded_files' = Append(downloaded_files, path)
                          /\ partsLeft' = partsLeft - 1
                          /\ UNCHANGED failed
                     [] outcome = "open raises" ->
                          /\ failed' = TRUE
                          /\ partsLeft' = 0
                          /\ UNCHANGED <<disk, writes, downloaded_files>>
                     [] OTHER ->
                          /\ disk' = disk \cup {path}
                          /\ writes' = Append(writes, [path |-> path, dir |-> output_dir,
                                                    name |-> A_clean_filename(att.filename),
                                                    ctype |-> att.ctype])
                          /\ failed' = TRUE
                          /\ partsLeft' = 0
                          /\ UNCHANGED downloaded_files
        /\ pc' = IF partsLeft' = 0 THEN "loop" ELSE "part"
    /\ UNCHANGED <<fetcher, disk0, searches,
                   days_limit, only_unread, search_term, now, marksSeen,
                   mailbox, selected, message_ids, total_messages, i, fetched, subject,
                   monthly_folder, attsLeft, folders, printed, result, logged_in,
                   logged_out, cf_in, cf_out>>

\* lines 128-132: logout, print the count, return the list
A_Logout ==
    /\ fetcher = "A" /\ pc = "loop" /\ i = Len(message_ids)
    /\ logged_out' = TRUE
    /\ printed' = Append(printed, Len(downloaded_files))
    /\ result' = downloaded_files
    /\ pc' = "done"
    /\ UNCHANGED <<fetcher, disk0, searches,
                   days_limit, only_unread, search_term, now, clock,
                   marksSeen, mailbox, selected, message_ids, total_messages, i,
                   fetched, subject, monthly_folder, partsLeft, attsLeft, carried,
                   disk, folders, writes, downloaded_files, logged_in, failed, cf_in,
                   cf_out>>

NextA == A_Connect \/ A_Select \/ A_Search \/ A_Fetch \/ A_Part \/ A_Logout

(***************************************************************************)
(* Fetcher B: src/zimbra_pdf_retriever.py download_pdf_attachments         *)
(***************************************************************************)
\* f"{year}-{month:02d}" under base_output_dir
MonthlyFolder(email_date, base_output_dir) ==
    Join(base_output_dir, IntToStr(email_date.year) \o <<"-">> \o TwoDigits(email_date.month))

\* att.filename.lower().endswith(".pdf")
B_IsWanted(att) == EndsWith(Lower(att.filename), DOT_PDF)

ProbeOnce(files, folder, filename, final_path, counter) ==
    IF final_path \in files
    THEN Join(folder, splitext(filename)[1] \o <<"_">> \o IntToStr(counter)
                      \o splitext(filename)[2])
    ELSE final_path

RECURSIVE Probe(_, _, _, _, _)
\* while os.path.exists(final_path): try f"{base_name}_{counter}{ext}"
Probe(files, folder, filename, final_path, counter) ==
    IF final_path \in files
    THEN Probe(files, folder, filename,
               Join(folder, splitext(filename)[1] \o <<"_">> \o IntToStr(counter)
                            \o splitext(filename)[2]),
               counter + 1)
    ELSE final_path

\* lines 101-108: the first free path for filename in folder
FinalPath(files, folder, filename) ==
    Probe(files, folder, filename, Join(folder, filename), 1)

\* lines 120-125: any exception inside the try lands here; print, return what was saved
B_Except ==
    /\ failed' = TRUE
    /\ printed' = Append(printed, Len(downloaded_files))
    /\ result' = downloaded_files
    /\ pc' = "done"

\* lines 47-56: MailBox(...), login into the folder
B_Login ==
    /\ fetcher = "B" /\ pc = "connect"
    /\ \E ok \in BOOLEAN :
        IF ok
        THEN /\ logged_in' = TRUE
             /\ pc' = "criteria"
             /\ UNCHANGED <<printed, result>>
        ELSE /\ printed' = Append(printed, Len(downloaded_files))
             /\ result' = downloaded_files
             /\ pc' = "done"
             /\ UNCHANGED logged_in
    /\ UNCHANGED <<fetcher, disk0, searches,
                   days_limit, only_unread, search_term, now, clock,
                   marksSeen, mailbox, selected, message_ids, total_messages, i,
                   fetched, subject, monthly_folder, partsLeft, attsLeft, carried,
                   disk, folders, writes, downloaded_files, logged_out, failed, cf_in,
                   cf_out>>

\* lines 59-75: build the criteria; the library may refuse a datetime for date_gte
B_Criteria ==
    /\ fetcher = "B" /\ pc = "criteria"
    /\ \E ok \in BOOLEAN :
        IF ok
        THEN /\ pc' = "count"
             /\ UNCHANGED <<failed, printed, result>>
        ELSE /\ SinceDay # {}
             /\ B_Except
    /\ UNCHANGED <<fetcher, disk0, searches,
                   days_limit, only_unread, search_term, now, clock,
                   marksSeen, mailbox, selected, message_ids, total_messages, i,
                   fetched, subject, monthly_folder, partsLeft, attsLeft, carried,
                   disk, folders, writes, downloaded_files, logged_in, logged_out,
                   cf_in, cf_out>>

\* lines 78-79, 81: first evaluation of the search, fetching every match to count it;
\* an exception after k fetches lands in the handler
B_Count ==
    /\ fetcher = "B" /\ pc = "count"
    /\ LET ids == Search(mailbox, Criteria) IN
       \E ok \in BOOLEAN, k \in 0..Len(ids) :
        /\ mailbox' = MarkSeen(mailbox, {ids[j] : j \in 1..k})
        /\ IF ok
           THEN /\ k = Len(ids)
                /\ searches' = searches + 1
                /\ total_messages' = Len(ids)
                /\ pc' = "search"
                /\ UNCHANGED <<failed, printed, result>>
           ELSE /\ k = 0 \/ k < Len(ids)
                /\ searches' = IF k = 0 THEN searches ELSE searches + 1
                /\ B_Except
                /\ UNCHANGED total_messages
    /\ UNCHANGED <<fetcher, disk0,
                   days_limit, only_unread, search_term, now, clock,
                   marksSeen, selected, message_ids, i, fetched, subject,
                   monthly_folder, partsLeft, attsLeft, carried, disk, folders, writes,
                   downloaded_files, logged_in, logged_out, cf_in, cf_out>>

\* line 80 and the first step of line 84: the second fetch() runs its own search
B_Search ==
    /\ fetcher = "B" /\ pc = "search"
    /\ \E ok \in BOOLEAN :
        IF ok
        THEN /\ message_ids' = Search(mailbox, Criteria)
             /\ searches' = searches + 1
             /\ pc' = "loop"
             /\ UNCHANGED <<failed, printed, result>>
        ELSE /\ B_Except
             /\ UNCHANGED <<message_ids, searches>>
    /\ UNCHANGED <<fetcher, disk0,
                   days_limit, only_unread, search_term, now, clock,
                   marksSeen, mailbox, selected, total_messages, i, fetched, subject,
                   monthly_folder, partsLeft, attsLeft, carried, disk, folders, writes,
                   downloaded_files, logged_in, logged_out, cf_in, cf_out>>

\* lines 84-95: next message of the second pass, its subject and monthly folder
B_Fetch ==
    /\ fetcher = "B" /\ pc = "loop" /\ i < Len(message_ids)
    /\ \E ok \in BOOLEAN, n \in 0..attsLeft :
        IF ok
        THEN /\ i' = i + 1
             /\ fetched' = Append(fetched, message_ids[i + 1])
             /\ mailbox' = MarkSeen(mailbox, {message_ids[i + 1]})
             /\ subject' = B_clean_filename(mailbox[message_ids[i + 1]].subject)
             /\ monthly_folder' = MonthlyFolder(mailbox[message_ids[i + 1]].date, output_dir)
             /\ folders' = folders \cup {monthly_folder'}
             /\ partsLeft' = n
             /\ attsLeft' = attsLeft - n
             /\ pc' = IF n > 0 THEN "att" ELSE "loop"
             /\ UNCHANGED <<failed, printed, result>>
        ELSE /\ n = 0
             /\ B_Except
             /\ UNCHANGED <<i, fetched, mailbox, subject, monthly_folder, folders,
                            partsLeft, attsLeft>>
    /\ UNCHANGED <<fetcher, disk0, searches,
                   days_limit, only_unread, search_term, now, clock,
                   marksSeen, selected, message_ids, total_messages, carried, disk,
                   writes, downloaded_files, logged_in, logged_out, cf_in, cf_out>>

\* lines 96-114: one attachment of msg.attachments
B_Att ==
    /\ fetcher = "B" /\ pc = "att" /\ partsLeft > 0
    /\ \E att \in Attachments, outcome \in {"ok", "open raises", "write raises"} :
        LET final_path == FinalPath(disk, monthly_folder, B_clean_filename(att.filename)) IN
        /\ carried' = carried + (IF att.ctype = PDF /\ att.disp = "attachment" THEN 1 ELSE 0)
        /\ IF ~B_IsWanted(att)
           THEN /\ outcome = "ok"
                /\ partsLeft' = partsLeft - 1
                /\ pc' = IF partsLeft' = 0 THEN "loop" ELSE "att"
                /\ UNCHANGED <<disk, writes, downloaded_files, failed, printed, result>>
           ELSE CASE outcome = "ok" ->
                      /\ disk' = disk \cup {final_path}
                      /\ writes' = Append(writes, [path |-> final_path, dir |-> monthly_folder,
                                                name |-> B_clean_filename(att.filename),
                                                ctype |-> att.ctype])
                      /\ downloaded_files' = Append(downloaded_files, final_path)
                      /\ partsLeft' = partsLeft - 1
                      /\ pc' = IF partsLeft' = 0 THEN "loop" ELSE "att"
                      /\ UNCHANGED <<failed, printed, result>>
                  [] outcome = "open raises" ->
                      /\ B_Except
                      /\ UNCHANGED <<disk, writes, downloaded_files, partsLeft>>
                  [] OTHER ->
                      /\ disk' = disk \cup {final_path}
                      /\ writes' = Append(writes, [path |-> final_path, dir |-> monthly_folder,
                                                name |-> B_clean_filename(att.filename),
                                                ctype |-> att.ctype])
                      /\ B_Except
                      /\ UNCHANGED <<downloaded_files, partsLeft>>
    /\ UNCHANGED <<fetcher, disk0, searches,
                   days_limit, only_unread, search_term, now, clock,
                   marksSeen, mailbox, selected, message_ids, total_messages, i,
                   fetched, subject, monthly_folder, attsLeft, folders, logged_in,
                   logged_out, cf_in, cf_out>>

\* lines 116-125: logout after the loop, print the count, return the list
B_Logout ==
    /\ fetcher = "B" /\ pc = "loop" /\ i = Len(message_ids)
    /\ logged_out' = TRUE
    /\ printed' = Append(printed, Len(downloaded_files))
    /\ result' = downloaded_files
    /\ pc' = "done"
    /\ UNCHANGED <<fetcher, disk0, searches,
                   days_limit, only_unread, search_term, now, clock,
                   marksSeen, mailbox, selected, message_ids, total_messages, i,
                   fetched, subject, monthly_folder, partsLeft, attsLeft, carried,
                   disk, folders, writes, downloaded_files, logged_in, failed, cf_in,
                   cf_out>>

NextB == B_Login \/ B_Criteria \/ B_Count \/ B_Search \/ B_Fetch \/ B_Att \/ B_Logout

(***************************************************************************)
(* clean_filename called alone                                             *)
(***************************************************************************)
A_Clean ==
    /\ fetcher = "A" /\ pc = "clean"
    /\ cf_out' = A_clean_filename(cf_in)
    /\ pc' = "cleaned"
    /\ UNCHANGED <<fetcher, days_limit, only_unread, search_term, now, clock, marksSeen,
                   mailbox, selected, message_ids, total_messages, i, fetched, subject,
                   monthly_folder, partsLeft, attsLeft, carried, searches, disk0, disk,
                   folders, writes, downloaded_files, printed, result, logged_in,
                   logged_out, failed, cf_in>>

B_Clean ==
    /\ fetcher = "B" /\ pc = "clean"
    /\ cf_out' = B_clean_filename(cf_in)
    /\ pc' = "cleaned"
    /\ UNCHANGED <<fetcher, days_limit, only_unread, search_term, now, clock, marksSeen,
                   mailbox, selected, message_ids, total_messages, i, fetched, subject,
                   monthly_folder, partsLeft, attsLeft, carried, searches, disk0, disk,
                   folders, writes, downloaded_files, printed, result, logged_in,
                   logged_out, failed, cf_in>>

NextClean == A_Clean \/ B_Clean

Next == NextA \/ NextB

Spec == Init /\ [][Next]_vars

SpecSearch == InitSearch /\ [][Next]_vars

InitA == Init /\ fetcher = "A"

SpecA == InitA /\ [][NextA]_vars

InitB == Init /\ fetcher = "B"

SpecB == InitB /\ [][NextB]_vars

SpecClean == InitClean /\ [][NextClean]_vars

(***************************************************************************)
(* Properties                                                              *)
(***************************************************************************)
ReservedCharacters == {"\\", "/", "*", "?", ":", "\"", "<", ">", "|"}

\* C8: for a non-empty text, clean_filename of either fetcher returns it with each
\* reserved character replaced by "_" and every other character unchanged: same
\* length, no reserved character left.
C8_CleanReplacesReserved ==
    (pc = "cleaned" /\ cf_in # NoName) =>
        /\ Len(cf_out) = Len(cf_in)
        /\ \A k \in 1..Len(cf_in) :
            cf_out[k] = IF cf_in[k] \in ReservedCharacters THEN "_" ELSE cf_in[k]
        /\ \A k \in 1..Len(cf_out) : cf_out[k] \notin ReservedCharacters

C8_Witness ==
    /\ pc = "cleaned" /\ fetcher = "B"
    /\ cf_in = <<"|", "a">> /\ cf_out = <<"_", "a">>

\* C6: when connecting or logging in fails, the failure is caught (nothing is
\* raised), the function returns the empty list, and the run sends no search,
\* fetches no message and writes no file.
C6_ConnectFailureReturnsEmpty ==
    ~logged_in =>
        /\ pc \in {"connect", "done"}
        /\ pc = "done" => result = << >>
        /\ searches = 0 /\ total_messages = 0 /\ message_ids = << >>
        /\ fetched = << >>
        /\ writes = << >> /\ disk = disk0 /\ downloaded_files = << >>

C6_Witness ==
    /\ fetcher = "B" /\ pc = "done" /\ ~logged_in
    /\ Len(mailbox) = 2 /\ result = << >> /\ printed = <<0>>

\* C7 as claimed, for a limit N >= 1: no message dated more than N days (N * 24
\* hours) before the run time is in the result set.
C7_NoMessageOlderThanNDays ==
    (days_limit # NoLimit /\ days_limit >= 1) =>
        \A k \in 1..Len(message_ids) :
            HourOfYear(mailbox[message_ids[k]].date) >= HourOfYear(now) - 24 * days_limit

\* C7 amended: with days_limit = N >= 1, no message dated on a calendar day before
\* the day N days before the day of the run is in the result set or is processed
\* (the cut is by date: a message up to a day older than N days can be included;
\* a limit of 0 is no limit).
C7_NoMessageBeforeSinceDay ==
    (days_limit # NoLimit /\ days_limit >= 1) =>
        \A id \in Range(message_ids) \cup Range(fetched) :
            DayOfYear(mailbox[id].date) >= DayOfYear(now) - days_limit

C7_Witness ==
    /\ days_limit = 1 /\ now = May02noon
    /\ pc = "done" /\ logged_out
    /\ Len(mailbox) = 2 /\ mailbox[1].date = Apr30 /\ mailbox[2].date = May01
    /\ fetched = <<2>> /\ Len(writes) = 1

\* C10: in Fetcher B the processing pass yields exactly the messages the counting
\* pass counted: the second search result has total_messages messages, and the
\* progress index never exceeds total_messages.
C10_SecondPassEqualsCount ==
    (fetcher = "B" /\ (pc \in {"loop", "att"} \/ (pc = "done" /\ logged_out))) =>
        /\ Len(message_ids) = total_messages
        /\ i <= total_messages

\* C5: every run in which login succeeds has called logout by the time
\* download_pdf_attachments is left, by return or by an exception, whatever failed.
C5_LogoutAfterLogin ==
    (logged_in /\ pc \in {"done", "raised"}) => logged_out

\* C1: with no filter and no failing call, the files written, the returned list
\* and the printed count all number the PDF attachments the messages carry.
C1_CountsEqualPdfAttachments ==
    (pc = "done" /\ logged_in /\ ~failed) =>
        /\ Cardinality(disk \ disk0) = carried
        /\ Len(result) = carried
        /\ printed = <<carried>>

\* C2: an attachment whose content is not a PDF is never written to disk and never
\* appears in the returned list, whatever its disposition and its filename.
C2_OnlyPdfContentWritten ==
    \A k \in 1..Len(writes) : writes[k].ctype = PDF

\* C4: in Fetcher A no two attachments written in one run get the same path: the
\* paths of the list are pairwise distinct and no written file is overwritten.
C4_PathsUniqueInA ==
    fetcher = "A" =>
        \A j, k \in 1..Len(writes) : j # k => writes[j].path # writes[k].path

\* The writes before the k-th that went into the k-th write's folder
EarlierInFolder(k) == {j \in 1..(k - 1) : writes[j].dir = writes[k].dir}

\* name.pdf for the first write of a name, name_n.pdf after n earlier ones
Suffixed(name, n) ==
    IF n = 0 THEN name
    ELSE SubSeq(name, 1, Len(name) - Len(DOT_PDF)) \o <<"_">> \o IntToStr(n) \o DOT_PDF

\* C3: in Fetcher B, while the attachments written into a monthly folder that held
\* no name.pdf or name_n.pdf before the run all have the same cleaned filename name.pdf, the k-th of
\* them (k = 0, 1, 2, ...) goes to name.pdf for k = 0 and to name_k.pdf for k >= 1;
\* and no write ever targets a path that exists already.
C3_SuffixSequence ==
    fetcher = "B" =>
        \A k \in 1..Len(writes) :
            /\ writes[k].path \notin disk0
            /\ \A j \in 1..(k - 1) : writes[j].path # writes[k].path
            /\ ( /\ \A n \in 0..Len(writes) :
                        Join(writes[k].dir, Suffixed(writes[k].name, n)) \notin disk0
                 /\ \A j \in EarlierInFolder(k) : writes[j].name = writes[k].name )
               => writes[k].path =
                      Join(writes[k].dir, Suffixed(writes[k].name, Cardinality(EarlierInFolder(k))))

C3_Witness ==
    /\ fetcher = "B" /\ pc = "done" /\ logged_out /\ disk0 = {}
    /\ Len(writes) = 3
    /\ \A k \in 1..3 : writes[k].name = A_PDF /\ writes[k].dir = writes[1].dir
    /\ writes[3].path = Join(writes[1].dir, <<"a", "_", "2", ".", "p", "d", "f">>)

\* C9: in Fetcher A a failed fetch or an exception while a message is processed
\* does not stop the run: the loop goes on, every id of the search result is
\* fetched by the time the function returns, and the paths appended so far stay in
\* the list, which is the list returned.
C9_AllFetchedAtReturn ==
    (fetcher = "A" /\ pc = "done" /\ logged_in /\ logged_out /\ printed # << >>) =>
        /\ fetched = message_ids
        /\ result = downloaded_files

C9_StepKeepsGoing ==
    (fetcher = "A" /\ pc \in {"loop", "part"}) =>
        /\ pc' \in {"loop", "part", "done"}
        /\ Len(downloaded_files') >= Len(downloaded_files)
        /\ SubSeq(downloaded_files', 1, Len(downloaded_files)) = downloaded_files
        /\ i' >= i
        /\ message_ids' = message_ids

C9_FailureDoesNotStopTheRun ==
    [](C9_AllFetchedAtReturn) /\ [][C9_StepKeepsGoing]_vars

C9_Witness ==
    /\ fetcher = "A" /\ pc = "done" /\ logged_out /\ failed
    /\ Len(message_ids) = 2 /\ fetched = message_ids
    /\ Len(result) = 2 /\ Cardinality(disk) = 3

====
